---- MODULE Spec2Model ----
(***************************************************************************)
(* A model of beekeeper/utils.py: the metadata directory scan, the edited  *)
(* row detection, the YAML export, the DLC dataframe restructuring and the *)
(* assembly of the dataframes to export.                                   *)
(*                                                                         *)
(* File names and cell texts are sequences of tokens ("v1", ".metadata",   *)
(* ".yaml"), so that str.endswith and pathlib's stem are computed rather   *)
(* than assumed.  A dataframe is a record [columns, rows] whose rows are   *)
(* sequences of cells aligned with the columns.                            *)
(***************************************************************************)
EXTENDS Integers, Sequences, FiniteSets, TLC

VARIABLES
    dir,                  \* the videos directory: [exists, entries]
    metadata_fields_dict, \* the keys of metadata_fields_dict, in dict order
    scan,                 \* the last call of df_from_metadata_yaml_files
    data_previous,        \* the rows of the metadata table before an edit
    data,                 \* the rows of the metadata table
    list_selected_rows,   \* the selected row positions (0-based)
    edit,                 \* the last call of set_edited_row_checkbox_to_true
    metadata_key_field_str, \* app_storage["metadata_key_field_str"]
    export,               \* the last call of export_selected_rows_as_yaml
    h5_file,              \* the pose table pd.read_hdf returns
    dlc,                  \* the last call of read_and_restructure_DLC_dataframe
    project,              \* per video stem, its metadata file and h5 file
    list_selected_videos, \* the videos selected in the table
    slider_start_end_labels, \* the two event labels of the slider
    combine,              \* the last call of get_dataframes_to_combine
    df_columns,           \* the columns of the dataframe shown as a table
    component             \* the last metadata table component created

scanVars == <<metadata_fields_dict, scan>>
tableVars == <<data, list_selected_rows>>
editVars == <<data_previous, edit>>
exportVars == <<metadata_key_field_str, export>>
dlcVars == <<h5_file, dlc>>
combineVars == <<project, list_selected_videos, slider_start_end_labels,
                 combine>>

componentVars == <<df_columns, component>>

vars == <<dir, scanVars, tableVars, editVars, exportVars, dlcVars,
          combineVars, componentVars>>

-----------------------------------------------------------------------------
(* Bounds *)

MaxVideos == 2      \* number of distinct video stems
MaxEntries == 3     \* number of entries in the scanned directory
MaxFields == 2      \* number of keys of metadata_fields_dict
MaxRows == 2        \* number of rows of the metadata table
MaxTexts == 3       \* number of distinct cell texts of the metadata table
MaxFrames == 2      \* number of frames of a pose table
MaxBodyparts == 2   \* number of bodyparts of a pose table
MaxScorers == 1     \* number of scorers of a pose table
MaxMissing == 1     \* number of pose estimates without any coordinate
MaxColumns == 3     \* number of columns of the dataframe shown as a table

-----------------------------------------------------------------------------
(* Generic helpers *)

Range(s) == {s[i] : i \in DOMAIN s}

IsDistinct(s) == \A i, j \in DOMAIN s : i # j => s[i] # s[j]

SeqsUpTo(S, n) == UNION {[1..k -> S] : k \in 0..n}

\* str.endswith
EndsWith(s, suffix) ==
    /\ Len(s) >= Len(suffix)
    /\ SubSeq(s, Len(s) - Len(suffix) + 1, Len(s)) = suffix

-----------------------------------------------------------------------------
(* YAML values and documents *)

StemNames == <<"v1", "v2", "v3", "v4">>
Stems == {StemNames[i] : i \in 1..MaxVideos}

MetadataSuffix == <<".metadata", ".yaml">>
YamlSuffix == <<".yaml">>

Str(text) == [kind |-> "str", val |-> text]
Num(text) == [kind |-> "num", val |-> text]
Bool(text) == [kind |-> "bool", val |-> text]
Dict(text) == [kind |-> "dict", val |-> text]
List(text) == [kind |-> "list", val |-> text]

\* The values a metadata file of the sample project holds: the video file
\* name, the frame rate, the Events mapping and the ROIs list.
FileItem(stem) == <<"File", Str(<<stem, ".avi">>)>>
FpsItem == <<"Fps", Num(<<"25">>)>>
EventsItem == <<"Events", Dict(<<"start", ":", "0", ",", "end", ":", "1">>)>>
ROIsItem == <<"ROIs", List(<<"name", ":", "enclosure">>)>>

\* What yaml.safe_load returns for a file: a mapping (its items in file
\* order), or something that is no mapping (None for an empty file).
Mapping(items) == [mapping |-> TRUE, items |-> items]
NotAMapping == [mapping |-> FALSE, items |-> <<>>]

Documents(stem) ==
    { NotAMapping,
      Mapping(<<>>),
      Mapping(<<FileItem(stem), FpsItem>>),
      Mapping(<<FileItem(stem), EventsItem>>),
      Mapping(<<FileItem(stem), FpsItem, ROIsItem>>) }

\* A YAML file of the project that is no video metadata (project_config.yaml)
ConfigDocument == Mapping(<< <<"videos_dir_path", Str(<<"videos">>)>> >>)

-----------------------------------------------------------------------------
(* The directory *)

DirEntries ==
    UNION {{[name |-> <<s>> \o MetadataSuffix, content |-> c] :
                c \in Documents(s)} : s \in Stems}
    \cup {[name |-> <<s>> \o YamlSuffix, content |-> ConfigDocument] : s \in Stems}

\* A directory lists each name once; the listing order is the file system's.
Listings ==
    {l \in SeqsUpTo(DirEntries, MaxEntries) :
        \A i, j \in DOMAIN l : i # j => l[i].name # l[j].name}

Directories ==
    {[exists |-> FALSE, entries |-> <<>>]}
    \cup {[exists |-> TRUE, entries |-> l] : l \in Listings}

-----------------------------------------------------------------------------
(* Dataframes *)

NoTable == [columns |-> <<>>, rows |-> <<>>, none |-> TRUE]
Table(columns, rows) == [columns |-> columns, rows |-> rows, none |-> FALSE]

NRows(t) == Len(t.rows)
NCols(t) == Len(t.columns)
Shape(t) == <<NRows(t), NCols(t)>>

Cells(t) == {t.rows[r][c] : r \in DOMAIN t.rows, c \in DOMAIN t.columns}

\* pd.DataFrame.from_dict({c: [row[c]] for c in columns}, orient="columns"):
\* one row when there are columns, and no row at all when there are none.
FromDictOfSingletons(columns, row) ==
    IF columns = <<>>
    THEN Table(<<>>, <<>>)
    ELSE Table(columns, <<row>>)

IndexOf(s, x) == CHOOSE i \in DOMAIN s : s[i] = x

\* pd.concat(frames, ignore_index=True, join="inner"): the columns every
\* frame has, in the first frame's order, and the rows of all frames.
RECURSIVE ConcatRows(_, _)
ConcatRows(frames, columns) ==
    IF frames = <<>>
    THEN <<>>
    ELSE LET f == Head(frames)
             projected(row) ==
                [i \in DOMAIN columns |-> row[IndexOf(f.columns, columns[i])]]
         IN  [r \in DOMAIN f.rows |-> projected(f.rows[r])]
             \o ConcatRows(Tail(frames), columns)

ConcatInner(frames) ==
    LET first == Head(frames).columns
        keep(c) == \A k \in DOMAIN frames : c \in Range(frames[k].columns)
        columns == SelectSeq(first, keep)
    IN  Table(columns, ConcatRows(frames, columns))

-----------------------------------------------------------------------------
(* df_from_metadata_yaml_files *)

\* str(v) of a dict: its text between braces
PyStr(v) == Str(<<"{">> \o v.val \o <<"}">>)

\* v if not isinstance(v, dict) else str(v)
CellOf(v) == IF v.kind # "dict" THEN v ELSE PyStr(v)

FrameOfDocument(doc) ==
    LET columns == [i \in DOMAIN doc.items |-> doc.items[i][1]]
        row == [i \in DOMAIN doc.items |-> CellOf(doc.items[i][2])]
    IN  FromDictOfSingletons(columns, row)

IsAnyYamlFile(entry) == EndsWith(entry.name, YamlSuffix)

\* str(f).endswith(".metadata.yaml")
IsMetadataFile(entry) == EndsWith(entry.name, MetadataSuffix)

ListMetadataFiles(d) == SelectSeq(d.entries, IsMetadataFile)

SchemaOnlyTableWithoutRow(fields) == Table(fields, <<>>)

\* pd.DataFrame.from_dict({c: [""] for c in metadata_fields_dict.keys()})
SchemaOnlyTable(fields) ==
    FromDictOfSingletons(fields, [i \in DOMAIN fields |-> Str(<<>>)])

MissingDirIsEmpty(d, fields) ==
    [kind |-> "ok", table |-> SchemaOnlyTable(fields),
     dir |-> [exists |-> TRUE, entries |-> <<>>]]

\* pl.Path(parent_dir).iterdir() when parent_dir does not exist
IterdirOfMissing(d, fields) ==
    [kind |-> "FileNotFoundError", table |-> NoTable, dir |-> d]

df_from_metadata_yaml_files(d, fields) ==
    IF ~d.exists
    THEN IterdirOfMissing(d, fields)
    ELSE
        LET list_metadata_files == ListMetadataFiles(d)
        IN  IF list_metadata_files = <<>>
            THEN [kind |-> "ok", table |-> SchemaOnlyTable(fields), dir |-> d]
            ELSE IF \E i \in DOMAIN list_metadata_files :
                        ~list_metadata_files[i].content.mapping
            THEN \* yaml.safe_load(ylf).items() on None
                 [kind |-> "AttributeError", table |-> NoTable, dir |-> d]
            ELSE
                LET list_df_metadata ==
                        [i \in DOMAIN list_metadata_files |->
                            FrameOfDocument(list_metadata_files[i].content)]
                IN  [kind |-> "ok",
                     table |-> ConcatInner(list_df_metadata),
                     dir |-> d]

-----------------------------------------------------------------------------
(* The scan of the metadata directory as a state machine *)

FieldNames == {"File", "Events", "ROIs"}
FieldsDicts == {f \in SeqsUpTo(FieldNames, MaxFields) : IsDistinct(f)}

NoDir == [exists |-> FALSE, entries |-> <<>>]

NoScan == [called |-> FALSE, dir |-> NoDir, fields |-> <<>>,
           kind |-> "none", table |-> NoTable]

NoEdit == [called |-> FALSE, selected_before |-> <<>>, sorted |-> FALSE]

NoExport == [called |-> FALSE, kind |-> "none", dir_before |-> NoDir]

\* The variables a state machine does not use keep these values
IdleDir == dir = NoDir
IdleScan == metadata_fields_dict = <<>> /\ scan = NoScan
IdleTable == data = <<>> /\ list_selected_rows = <<>>
IdleEdit == data_previous = <<>> /\ edit = NoEdit
IdleExport == metadata_key_field_str = "File" /\ export = NoExport

NoH5 == [multianimal |-> FALSE, nframes |-> 0, nbodyparts |-> 0,
         nscorers |-> 0, missing |-> {}, partial |-> {}]

NoFrame == [columns |-> <<>>, rows |-> <<>>, index |-> <<>>]

NoDLC == [called |-> FALSE, kind |-> "none", df |-> NoFrame,
          stack_drops_nan |-> FALSE]

IdleDLC == h5_file = NoH5 /\ dlc = NoDLC

NoCombine == [called |-> FALSE, kind |-> "none", dfs |-> <<>>]

IdleCombine ==
    /\ project = <<>>
    /\ list_selected_videos = <<>>
    /\ slider_start_end_labels = <<>>
    /\ combine = NoCombine

NoComponent == [called |-> FALSE, columns |-> <<>>]

IdleComponent == df_columns = <<>> /\ component = NoComponent

InitScan ==
    /\ dir \in Directories
    /\ metadata_fields_dict \in FieldsDicts
    /\ scan = NoScan
    /\ IdleTable /\ IdleEdit /\ IdleExport /\ IdleDLC /\ IdleCombine
    /\ IdleComponent

ScanMetadata ==
    /\ ~scan.called
    /\ LET r == df_from_metadata_yaml_files(dir, metadata_fields_dict)
       IN  /\ scan' = [called |-> TRUE, dir |-> dir,
                       fields |-> metadata_fields_dict,
                       kind |-> r.kind, table |-> r.table]
           /\ dir' = r.dir
    /\ UNCHANGED <<metadata_fields_dict, tableVars, editVars, exportVars,
                   dlcVars, combineVars, componentVars>>

NextScan == ScanMetadata

SpecScan == InitScan /\ [][NextScan]_vars

\* The inputs of the last scan
ScannedMetadataFiles ==
    SelectSeq(scan.dir.entries, LAMBDA e : EndsWith(e.name, MetadataSuffix))
ScannedYamlFiles ==
    SelectSeq(scan.dir.entries, LAMBDA e : EndsWith(e.name, YamlSuffix))

ScannedEmptyOfMetadata ==
    scan.called /\ scan.dir.exists /\ ScannedMetadataFiles = <<>>

-----------------------------------------------------------------------------
(* C1 *)

\* C1 as stated: on an existing directory without metadata files the table
\* has the keys of metadata_fields_dict as columns and exactly one row of
\* empty strings, so shape (1, number of fields), for every dict.
C1_Original ==
    ScannedEmptyOfMetadata =>
        /\ scan.kind = "ok"
        /\ scan.table.columns = scan.fields
        /\ Shape(scan.table) = <<1, Len(scan.fields)>>
        /\ Cells(scan.table) \subseteq {Str(<<>>)}

\* C1 as amended: on an existing directory without metadata files the
\* table has the keys of metadata_fields_dict as columns, in dict order;
\* with at least one key it has exactly one row, all empty strings, and
\* with no key it has no row and no column (shape (0, 0)).
C1_SchemaOnlyTable ==
    ScannedEmptyOfMetadata =>
        /\ scan.kind = "ok"
        /\ scan.table.columns = scan.fields
        /\ scan.fields # <<>> =>
            /\ Shape(scan.table) = <<1, Len(scan.fields)>>
            /\ Cells(scan.table) = {Str(<<>>)}
        /\ scan.fields = <<>> => Shape(scan.table) = <<0, 0>>
        /\ dir = scan.dir

C1_Witness ==
    /\ ScannedEmptyOfMetadata
    /\ scan.dir.entries # <<>>
    /\ Len(scan.fields) = MaxFields
    /\ Shape(scan.table) = <<1, MaxFields>>

-----------------------------------------------------------------------------
(* C2 *)

\* C2: on a directory that does not exist the call ends in
\* FileNotFoundError for every metadata_fields_dict, returns no table and
\* creates nothing on disk.
C2_MissingDirRaises ==
    (scan.called /\ ~scan.dir.exists) =>
        /\ scan.kind = "FileNotFoundError"
        /\ scan.table = NoTable
        /\ dir = scan.dir
        /\ ~dir.exists

C2_Witness ==
    /\ scan.called
    /\ ~scan.dir.exists
    /\ scan.fields = <<>>
    /\ scan.kind = "FileNotFoundError"

-----------------------------------------------------------------------------
(* C3 *)

NonEmptyMappings(files) ==
    SelectSeq(files, LAMBDA e : e.content.mapping /\ e.content.items # <<>>)

AllMappings(files) == \A i \in DOMAIN files : files[i].content.mapping

\* C3 as stated: with metadata files in the directory (each holding a
\* mapping with at least one key), the table has as many rows as the
\* directory has files whose name ends in ".yaml".
C3_Original ==
    (scan.called /\ scan.kind = "ok" /\ ScannedMetadataFiles # <<>>
        /\ NonEmptyMappings(ScannedMetadataFiles) = ScannedMetadataFiles) =>
        NRows(scan.table) = Len(ScannedYamlFiles)

\* C3 as amended: with metadata files in the directory that all hold a
\* YAML mapping, the call returns a table with one row per file whose name
\* ends in ".metadata.yaml" and whose mapping has at least one key; other
\* ".yaml" files add no row.
C3_RowPerMetadataFile ==
    (scan.called /\ scan.dir.exists /\ ScannedMetadataFiles # <<>>
        /\ AllMappings(ScannedMetadataFiles)) =>
        /\ scan.kind = "ok"
        /\ NRows(scan.table) = Len(NonEmptyMappings(ScannedMetadataFiles))

C3_Witness ==
    /\ scan.called
    /\ scan.kind = "ok"
    /\ Len(ScannedMetadataFiles) = 2
    /\ Len(ScannedYamlFiles) = 3
    /\ NRows(scan.table) = 2

-----------------------------------------------------------------------------
(* C9 *)

TableCellKinds == {"str", "num", "bool"}

\* C9: every cell of the table built from metadata files is a string, a
\* number or a bool, whatever the files hold: mappings and lists are
\* converted before they reach the table.
C9_CellsAreScalars ==
    (scan.called /\ scan.kind = "ok" /\ ScannedMetadataFiles # <<>>) =>
        \A cell \in Cells(scan.table) : cell.kind \in TableCellKinds

-----------------------------------------------------------------------------
(* The metadata table *)

\* The texts a cell of the metadata table holds, in lexicographic order of
\* the strings they stand for: a cell holds the position of its text in this
\* sequence, so that cells compare as their strings do.
CellTexts ==
    << <<"d", "/", "v1", ".avi">>,
       <<"v1", ".avi">>,
       <<"v2", ".avi">>,
       <<"v2", ".mp4">>,
       <<"v3", ".avi">> >>

TableColumns == <<"File", "Date_start">>

TableRows == [DOMAIN TableColumns -> 1..MaxTexts]

Tables == UNION {[1..n -> TableRows] : n \in 0..MaxRows}

\* Row positions as the code counts them
Positions(table) == {i - 1 : i \in DOMAIN table}
RowAt(table, position) == table[position + 1]

-----------------------------------------------------------------------------
(* set_edited_row_checkbox_to_true *)

\* Tuples of cells in lexicographic order
RECURSIVE RowLeq(_, _)
RowLeq(a, b) ==
    IF a = <<>> THEN TRUE
    ELSE IF Head(a) # Head(b) THEN Head(a) < Head(b)
    ELSE RowLeq(Tail(a), Tail(b))

RECURSIVE SortedKeys(_)
SortedKeys(keys) ==
    IF keys = {} THEN <<>>
    ELSE LET least == CHOOSE k \in keys : \A other \in keys : RowLeq(k, other)
         IN  <<least>> \o SortedKeys(keys \ {least})

\* The distinct rows of a sequence, in order of first appearance
RECURSIVE Unique(_)
Unique(rows) ==
    IF rows = <<>> THEN <<>>
    ELSE LET init == SubSeq(rows, 1, Len(rows) - 1)
             last == rows[Len(rows)]
         IN  IF last \in Range(init) THEN Unique(init)
             ELSE Append(Unique(init), last)

Count(rows, key) == Cardinality({i \in DOMAIN rows : rows[i] = key})

Repeat(x, n) == [i \in 1..n |-> x]

\* The order of the join keys of an outer merge: sorted lexicographically
\* (pandas from 2.2 on), or in order of first appearance, the keys of the
\* left frame first (pandas before 2.2).
MergeKeys(left, right, sorted) ==
    IF sorted
    THEN SortedKeys(Range(left) \cup Range(right))
    ELSE Unique(left \o right)

\* df.merge(df_previous, how="outer", indicator=True)["_merge"]: the frames
\* have the same columns, so whole rows are the join keys; each key yields a
\* row per pair of a left and a right row that hold it, or a row per left
\* row (left_only), or a row per right row (right_only).
RECURSIVE MergeIndicator(_, _, _)
MergeIndicator(keys, left, right) ==
    IF keys = <<>> THEN <<>>
    ELSE LET k == Head(keys)
             nl == Count(left, k)
             nr == Count(right, k)
             group == IF nr = 0 THEN Repeat("left_only", nl)
                      ELSE IF nl = 0 THEN Repeat("right_only", nr)
                      ELSE Repeat("both", nl * nr)
         IN  group \o MergeIndicator(Tail(keys), left, right)

\* df_diff.index.tolist(): the labels, in the merged frame, of its left_only
\* rows
RECURSIVE LeftOnlyIndex(_, _)
LeftOnlyIndex(indicator, offset) ==
    IF indicator = <<>> THEN <<>>
    ELSE (IF Head(indicator) = "left_only" THEN <<offset>> ELSE <<>>)
         \o LeftOnlyIndex(Tail(indicator), offset + 1)

DfDiffIndex(rows_previous, rows, sorted) ==
    LeftOnlyIndex(
        MergeIndicator(MergeKeys(rows, rows_previous, sorted),
                       rows, rows_previous),
        0)

set_edited_row_checkbox_to_true(rows_previous, rows, selected, sorted) ==
    selected
    \o SelectSeq(DfDiffIndex(rows_previous, rows, sorted),
                 LAMBDA i : i \notin Range(selected))

-----------------------------------------------------------------------------
(* Editing the table as a state machine *)

Selections(table) ==
    {sel \in SeqsUpTo(Positions(table), Len(table)) : IsDistinct(sel)}

InitEdit ==
    /\ data \in Tables
    /\ data_previous = data
    /\ list_selected_rows \in Selections(data)
    /\ edit = NoEdit
    /\ IdleDir /\ IdleScan /\ IdleExport /\ IdleDLC /\ IdleCombine
    /\ IdleComponent

\* The user edits a cell of the table; the callback receives the table
\* before and after the edit and the selection, and returns the new
\* selection.
EditTable ==
    \E r \in DOMAIN data, c \in DOMAIN TableColumns, text \in 1..MaxTexts,
       sorted \in BOOLEAN :
      LET new_data == [data EXCEPT ![r][c] = text] IN
        /\ new_data # data
        /\ data_previous' = data
        /\ data' = new_data
        /\ list_selected_rows' =
            set_edited_row_checkbox_to_true(
                data, new_data, list_selected_rows, sorted)
        /\ edit' = [called |-> TRUE, selected_before |-> list_selected_rows,
                    sorted |-> sorted]
        /\ UNCHANGED <<dir, scanVars, exportVars, dlcVars, combineVars,
                     componentVars>>

NextEdit == EditTable

SpecEdit == InitEdit /\ [][NextEdit]_vars

EditedPositions ==
    {p \in Positions(data) : RowAt(data, p) # RowAt(data_previous, p)}

-----------------------------------------------------------------------------
(* C4 *)

\* C4: after set_edited_row_checkbox_to_true on two snapshots with the same
\* number of rows, the selection holds the position of every edited row,
\* and every position it gained is the position of an edited row.
C4_MarksExactlyEditedRows ==
    edit.called =>
        /\ EditedPositions \subseteq Range(list_selected_rows)
        /\ Range(list_selected_rows) \ Range(edit.selected_before)
            \subseteq EditedPositions

-----------------------------------------------------------------------------
(* export_selected_rows_as_yaml *)

PathSeparator == "/"
SuffixTokens == {".avi", ".mp4", ".yaml", ".metadata"}

\* The final component of a path: what follows its last separator
RECURSIVE PathName(_)
PathName(text) ==
    IF text = <<>> THEN <<>>
    ELSE IF text[Len(text)] = PathSeparator THEN <<>>
    ELSE Append(PathName(SubSeq(text, 1, Len(text) - 1)), text[Len(text)])

\* pl.Path(text).stem: the final component without its last suffix
Stem(text) ==
    LET name == PathName(text)
    IN  IF Len(name) >= 2 /\ name[Len(name)] \in SuffixTokens
        THEN SubSeq(name, 1, Len(name) - 1)
        ELSE name

CellText(row, column) == CellTexts[row[IndexOf(TableColumns, column)]]

\* key + ".metadata.yaml"
YamlFilename(row, key_field) == Stem(CellText(row, key_field)) \o MetadataSuffix

DumpSortedKeys(row) ==
    LET Before(a, b) == IndexOf(<<"Date_start", "File">>, a)
                        < IndexOf(<<"Date_start", "File">>, b)
        sorted_columns == SortSeq(TableColumns, Before)
    IN  Mapping([i \in DOMAIN sorted_columns |->
                    <<sorted_columns[i], Str(CellText(row, sorted_columns[i]))>>])

\* yaml.dump(row, yamlf, sort_keys=False): the document the file then holds
Dump(row) ==
    Mapping([i \in DOMAIN TableColumns |->
                <<TableColumns[i], Str(CellTexts[row[i]])>>])

HasFile(d, name) == \E i \in DOMAIN d.entries : d.entries[i].name = name

\* open(path, "w") and write: the file is created, or its content replaced
WriteFile(d, name, content) ==
    IF HasFile(d, name)
    THEN [d EXCEPT !.entries =
            [i \in DOMAIN d.entries |->
                IF d.entries[i].name = name
                THEN [name |-> name, content |-> content]
                ELSE d.entries[i]]]
    ELSE [d EXCEPT !.entries =
            Append(d.entries, [name |-> name, content |-> content])]

RECURSIVE WriteRows(_, _, _)
WriteRows(d, rows, key_field) ==
    IF rows = <<>> THEN d
    ELSE WriteRows(
            WriteFile(d, YamlFilename(Head(rows), key_field), Dump(Head(rows))),
            Tail(rows), key_field)

export_selected_rows_as_yaml(rows, selected, key_field, d) ==
    IF \E i \in DOMAIN selected : selected[i] \notin Positions(rows)
    THEN \* data[i] in the list comprehension, before any file is written
         [kind |-> "IndexError", dir |-> d]
    ELSE IF selected # <<>> /\ ~d.exists
    THEN [kind |-> "FileNotFoundError", dir |-> d]
    ELSE [kind |-> "ok",
          dir |-> WriteRows(
                    d,
                    [i \in DOMAIN selected |-> RowAt(rows, selected[i])],
                    key_field)]

-----------------------------------------------------------------------------
(* Exporting the selection as a state machine *)

StaleDocument == Mapping(<<FileItem("v1"), FpsItem>>)

ExportDirs ==
    { NoDir,
      [exists |-> TRUE, entries |-> <<>>],
      [exists |-> TRUE,
       entries |-> << [name |-> <<"v1">> \o MetadataSuffix,
                       content |-> StaleDocument],
                      [name |-> <<"v1">> \o YamlSuffix,
                       content |-> ConfigDocument] >>] }

InitExport ==
    /\ data \in Tables
    /\ list_selected_rows \in SeqsUpTo(0..Len(data), Len(data))
    /\ dir \in ExportDirs
    /\ metadata_key_field_str \in Range(TableColumns)
    /\ export = NoExport
    /\ IdleScan /\ IdleEdit /\ IdleDLC /\ IdleCombine /\ IdleComponent

ExportSelectedRows ==
    /\ ~export.called
    /\ LET r == export_selected_rows_as_yaml(
                    data, list_selected_rows, metadata_key_field_str, dir)
       IN  /\ export' = [called |-> TRUE, kind |-> r.kind, dir_before |-> dir]
           /\ dir' = r.dir
    /\ UNCHANGED <<scanVars, tableVars, editVars, metadata_key_field_str,
                   dlcVars, combineVars, componentVars>>

NextExport == ExportSelectedRows

SpecExport == InitExport /\ [][NextExport]_vars

\* What a directory holds under a name: one document, or nothing
Held(d, name) ==
    {d.entries[i].content : i \in {j \in DOMAIN d.entries : d.entries[j].name = name}}

NamesIn(d) == {d.entries[i].name : i \in DOMAIN d.entries}

ExpectedName(position) ==
    LET text == CellText(RowAt(data, position), metadata_key_field_str)
        name == PathName(text)
    IN  (IF Len(name) >= 2 /\ name[Len(name)] \in SuffixTokens
         THEN SubSeq(name, 1, Len(name) - 1) ELSE name)
        \o <<".metadata", ".yaml">>

ExpectedDocument(position) ==
    [mapping |-> TRUE,
     items |-> [i \in DOMAIN TableColumns |->
                 <<TableColumns[i],
                   [kind |-> "str", val |-> CellTexts[RowAt(data, position)[i]]]>>]]

SelectedNames ==
    {ExpectedName(list_selected_rows[i]) : i \in DOMAIN list_selected_rows}

ExportApplies ==
    /\ export.called
    /\ export.dir_before.exists
    /\ Range(list_selected_rows) \subseteq Positions(data)

\* The last selected position, in selection order, whose file has this name
LastSelectedFor(name) ==
    LET last == CHOOSE i \in DOMAIN list_selected_rows :
                    /\ ExpectedName(list_selected_rows[i]) = name
                    /\ \A j \in DOMAIN list_selected_rows :
                         ExpectedName(list_selected_rows[j]) = name => j <= i
    IN  list_selected_rows[last]

-----------------------------------------------------------------------------
(* C5 *)

\* C5 as stated: after the export every selected row has its file, named
\* by the stem of its key field, holding that row's mapping in column
\* order; only files named after selected rows are written, every other
\* file of the directory is unchanged.
C5_Original ==
    ExportApplies =>
        /\ export.kind = "ok"
        /\ \A p \in Range(list_selected_rows) :
             Held(dir, ExpectedName(p)) = {ExpectedDocument(p)}
        /\ \A name \in (NamesIn(dir) \cup NamesIn(export.dir_before))
                        \ SelectedNames :
             Held(dir, name) = Held(export.dir_before, name)

\* C5 as amended: after the export the file named by the stem of a selected
\* row's key field holds, in column order, the mapping of the last selected
\* row with that file name (the row's own mapping when no later selected
\* row shares its stem); every file whose name is not that of a selected
\* row is unchanged, and no such file is created.
C5_ExportWritesSelectedRows ==
    ExportApplies =>
        /\ export.kind = "ok"
        /\ \A p \in Range(list_selected_rows) :
             Held(dir, ExpectedName(p)) =
                {ExpectedDocument(LastSelectedFor(ExpectedName(p)))}
        /\ \A name \in (NamesIn(dir) \cup NamesIn(export.dir_before))
                        \ SelectedNames :
             Held(dir, name) = Held(export.dir_before, name)

C5_Witness ==
    /\ ExportApplies
    /\ export.kind = "ok"
    /\ Len(list_selected_rows) = 2
    /\ Cardinality(SelectedNames) = 2
    /\ \E name \in SelectedNames : Held(export.dir_before, name) # {}
    /\ \E name \in SelectedNames : Held(export.dir_before, name) = {}
    /\ NamesIn(export.dir_before) \ SelectedNames # {}

-----------------------------------------------------------------------------
(* Editing and then exporting: the selection the two callbacks share *)

EmptyVideosDir == [exists |-> TRUE, entries |-> <<>>]

InitSession ==
    /\ data \in Tables
    /\ data_previous = data
    /\ list_selected_rows \in Selections(data)
    /\ edit = NoEdit
    /\ dir = EmptyVideosDir
    /\ IdleScan /\ IdleExport /\ IdleDLC /\ IdleCombine /\ IdleComponent

\* The user edits a cell, while nothing is exported yet
EditBeforeExport == ~export.called /\ EditTable

\* The callback runs on a table that did not change: both snapshots are
\* the same
CallbackWithoutEdit ==
    /\ ~export.called
    /\ \E sorted \in BOOLEAN :
        /\ list_selected_rows' =
            set_edited_row_checkbox_to_true(
                data, data, list_selected_rows, sorted)
        /\ edit' = [called |-> TRUE, selected_before |-> list_selected_rows,
                    sorted |-> sorted]
    /\ data_previous' = data
    /\ UNCHANGED <<dir, scanVars, data, exportVars, dlcVars, combineVars,
                   componentVars>>

NextSession ==
    \/ EditBeforeExport
    \/ CallbackWithoutEdit
    \/ ExportSelectedRows

SpecSession == InitSession /\ [][NextSession]_vars

-----------------------------------------------------------------------------
(* C12 *)

IsPrefix(s, t) == Len(s) <= Len(t) /\ SubSeq(t, 1, Len(s)) = s

\* C12: under editing the selection never loses a selected position, never
\* holds a position twice, is unchanged when the two snapshots are equal,
\* and holds only positions of the table, so that the export that follows
\* never indexes outside the table.
C12_SelectionWellFormed ==
    /\ edit.called => IsPrefix(edit.selected_before, list_selected_rows)
    /\ IsDistinct(list_selected_rows)
    /\ (edit.called /\ data = data_previous) =>
            list_selected_rows = edit.selected_before
    /\ Range(list_selected_rows) \subseteq Positions(data)
    /\ export.called => export.kind # "IndexError"

-----------------------------------------------------------------------------
(* The pose table of an h5 file *)

\* A pose table has a row per frame (its index, 0-based) and a column per
\* scorer, bodypart and coordinate.  Scorers and bodyparts are numbered in
\* the lexicographic order of their names.  An estimate is the x, y and
\* likelihood of a frame, scorer and bodypart; it may lack every coordinate
\* (missing) or all but x (partial).
NaN == -1

Coords == <<"x", "y", "likelihood">>

Estimates(nframes, nscorers, nbodyparts) ==
    (0..(nframes - 1)) \X (1..nscorers) \X (1..nbodyparts)

SubsetsUpTo(S, n) == {T \in SUBSET S : Cardinality(T) <= n}

H5Files ==
    UNION {
        UNION {
            {[multianimal |-> m, nframes |-> nf, nbodyparts |-> nb,
              nscorers |-> ns, missing |-> miss, partial |-> part] :
                m \in BOOLEAN,
                part \in SubsetsUpTo(Estimates(nf, ns, nb) \ miss, MaxMissing)}
            : miss \in SubsetsUpTo(Estimates(nf, ns, nb), MaxMissing)}
        : nf \in 1..MaxFrames, ns \in 1..MaxScorers, nb \in 1..MaxBodyparts}

\* The number an estimate holds for a coordinate: one per estimate and
\* coordinate, so that a row can be traced to the estimate it carries.
CoordValue(coord, f, sc, b) ==
    IndexOf(Coords, coord) * 1000 + f * 100 + sc * 10 + b

H5Cell(h5, f, sc, b, coord) ==
    IF <<f, sc, b>> \in h5.missing THEN NaN
    ELSE IF <<f, sc, b>> \in h5.partial /\ coord # "x" THEN NaN
    ELSE CoordValue(coord, f, sc, b)

-----------------------------------------------------------------------------
(* read_and_restructure_DLC_dataframe *)

Frame(columns, rows, index) ==
    [columns |-> columns, rows |-> rows, index |-> index]

Col(df, row, column) == row[IndexOf(df.columns, column)]

RangeIndex(rows) == [i \in DOMAIN rows |-> i - 1]

StackedColumns == <<"frame", "scorer", "bodyparts", "likelihood", "x", "y">>

\* df.stack(level=["scorer", "bodyparts"]).reset_index(): a row per frame,
\* scorer and bodypart, frames outermost, holding the three coordinates; a
\* row without any coordinate is dropped by the stack that drops NaN rows
\* (the default before pandas 3) and kept by the one that does not.
StackAndResetIndex(h5, stack_drops_nan) ==
    LET per_frame == h5.nscorers * h5.nbodyparts
        n == h5.nframes * per_frame
        row(i) ==
            LET f == (i - 1) \div per_frame
                sc == (((i - 1) % per_frame) \div h5.nbodyparts) + 1
                b == ((i - 1) % h5.nbodyparts) + 1
            IN  <<f, sc, b,
                  H5Cell(h5, f, sc, b, "likelihood"),
                  H5Cell(h5, f, sc, b, "x"),
                  H5Cell(h5, f, sc, b, "y")>>
        all_rows == [i \in 1..n |-> row(i)]
        has_value(r) == \E c \in 4..6 : r[c] # NaN
        rows == IF stack_drops_nan THEN SelectSeq(all_rows, has_value)
                ELSE all_rows
    IN  Frame(StackedColumns, rows, RangeIndex(rows))

\* df.rename(columns={"scorer": "model_str", "bodyparts": "bodypart"})
RenameColumns(df) ==
    [df EXCEPT !.columns =
        [i \in DOMAIN df.columns |->
            IF df.columns[i] = "scorer" THEN "model_str"
            ELSE IF df.columns[i] = "bodyparts" THEN "bodypart"
            ELSE df.columns[i]]]

list_columns_in_order ==
    <<"model_str", "frame", "bodypart", "x", "y", "likelihood">>

\* df[list_columns_in_order]
SelectColumns(df, columns) ==
    [df EXCEPT
        !.columns = columns,
        !.rows = [r \in DOMAIN df.rows |->
                    [c \in DOMAIN columns |-> Col(df, df.rows[r], columns[c])]]]

\* The order of sort_values(by=["bodypart", "frame"])
SortsBefore(df, a, b) ==
    \/ Col(df, a, "bodypart") < Col(df, b, "bodypart")
    \/ /\ Col(df, a, "bodypart") = Col(df, b, "bodypart")
       /\ Col(df, a, "frame") < Col(df, b, "frame")

\* The rows left to sort, as positions: the first of the least ones is next
RECURSIVE SortedPositions(_, _)
SortedPositions(df, left) ==
    IF left = {} THEN <<>>
    ELSE LET next == CHOOSE i \in left :
                        \A j \in left \ {i} :
                            \/ SortsBefore(df, df.rows[i], df.rows[j])
                            \/ /\ ~SortsBefore(df, df.rows[j], df.rows[i])
                               /\ i < j
         IN  <<next>> \o SortedPositions(df, left \ {next})

SortValuesNot(df) == df

\* df.sort_values(by=["bodypart", "frame"], inplace=True): the rows move
\* with their index labels
SortValues(df) ==
    LET order == SortedPositions(df, DOMAIN df.rows)
    IN  [df EXCEPT
            !.rows = [i \in DOMAIN order |-> df.rows[order[i]]],
            !.index = [i \in DOMAIN order |-> df.index[order[i]]]]

\* df.reset_index(drop=True)
ResetIndex(df) == [df EXCEPT !.index = RangeIndex(df.rows)]

\* df.columns.names of the pose table read from the h5 file
ColumnLevels(h5) ==
    IF h5.multianimal
    THEN <<"scorer", "individuals", "bodyparts", "coords">>
    ELSE <<"scorer", "bodyparts", "coords">>

is_multianimal(h5) == "individuals" \in Range(ColumnLevels(h5))

columns_to_stack(h5) ==
    IF is_multianimal(h5)
    THEN <<"scorer", "bodyparts", "individual">>
    ELSE <<"scorer", "bodyparts">>

\* df.stack(level=...) with a name that is not a level of the columns: the
\* stack that drops NaN rows refuses the list of levels with a ValueError,
\* the one that keeps them looks each level up and raises a KeyError
StackLevelError(stack_drops_nan) ==
    IF stack_drops_nan THEN "ValueError" ELSE "KeyError"

read_and_restructure_DLC_dataframe(h5, stack_drops_nan) ==
    IF ~(Range(columns_to_stack(h5)) \subseteq Range(ColumnLevels(h5)))
    THEN [kind |-> StackLevelError(stack_drops_nan), df |-> NoFrame]
    ELSE [kind |-> "ok",
          df |-> ResetIndex(
                    SortValues(
                        SelectColumns(
                            RenameColumns(
                                StackAndResetIndex(h5, stack_drops_nan)),
                            list_columns_in_order)))]

-----------------------------------------------------------------------------
(* Restructuring a pose table as a state machine *)

InitDLC ==
    /\ h5_file \in H5Files
    /\ dlc = NoDLC
    /\ IdleDir /\ IdleScan /\ IdleTable /\ IdleEdit /\ IdleExport
    /\ IdleCombine /\ IdleComponent

ReadAndRestructure ==
    /\ ~dlc.called
    /\ \E stack_drops_nan \in BOOLEAN :
        LET r == read_and_restructure_DLC_dataframe(h5_file, stack_drops_nan)
        IN  dlc' = [called |-> TRUE, kind |-> r.kind, df |-> r.df,
                    stack_drops_nan |-> stack_drops_nan]
    /\ UNCHANGED <<dir, scanVars, tableVars, editVars, exportVars, h5_file,
                   combineVars, componentVars>>

NextDLC == ReadAndRestructure

SpecDLC == InitDLC /\ [][NextDLC]_vars

\* The rows of the result that carry an estimate of the input
RowsOf(f, sc, b) ==
    {i \in DOMAIN dlc.df.rows :
        /\ dlc.df.rows[i][1] = sc
        /\ dlc.df.rows[i][2] = f
        /\ dlc.df.rows[i][3] = b}

CarriesEstimate(row) ==
    LET value(coord) ==
            IF <<row[2], row[1], row[3]>> \in h5_file.missing THEN NaN
            ELSE IF <<row[2], row[1], row[3]>> \in h5_file.partial
                    /\ coord # "x" THEN NaN
            ELSE IndexOf(Coords, coord) * 1000
                 + row[2] * 100 + row[1] * 10 + row[3]
    IN  /\ row[4] = value("x")
        /\ row[5] = value("y")
        /\ row[6] = value("likelihood")

InputEstimates ==
    Estimates(h5_file.nframes, h5_file.nscorers, h5_file.nbodyparts)

SortedByBodypartThenFrame ==
    \A i, j \in DOMAIN dlc.df.rows :
        i < j =>
            \/ dlc.df.rows[i][3] < dlc.df.rows[j][3]
            \/ /\ dlc.df.rows[i][3] = dlc.df.rows[j][3]
               /\ dlc.df.rows[i][2] <= dlc.df.rows[j][2]

LongFormat ==
    /\ dlc.kind = "ok"
    /\ dlc.df.columns =
        <<"model_str", "frame", "bodypart", "x", "y", "likelihood">>
    /\ \A i \in DOMAIN dlc.df.rows :
        /\ <<dlc.df.rows[i][2], dlc.df.rows[i][1], dlc.df.rows[i][3]>>
            \in InputEstimates
        /\ CarriesEstimate(dlc.df.rows[i])
    /\ SortedByBodypartThenFrame
    /\ dlc.df.index = [i \in DOMAIN dlc.df.rows |-> i - 1]

-----------------------------------------------------------------------------
(* C6 *)

\* C6 as stated: for a single-animal pose table the result has the columns
\* model_str, frame, bodypart, x, y, likelihood, exactly one row per scorer,
\* bodypart and frame of the input, carrying its x, y and likelihood, rows
\* sorted by bodypart then frame, and the index 0..n-1.
C6_Original ==
    (dlc.called /\ ~h5_file.multianimal) =>
        /\ LongFormat
        /\ \A e \in InputEstimates : Cardinality(RowsOf(e[1], e[2], e[3])) = 1

\* C6 as amended: for a single-animal pose table the result has the columns
\* model_str, frame, bodypart, x, y, likelihood, at most one row per scorer,
\* bodypart and frame of the input and exactly one for each of them that
\* has at least one of x, y and likelihood; every row carries the x, y and
\* likelihood of its scorer, bodypart and frame; rows are sorted by
\* bodypart then frame, and the index is 0..n-1.
C6_LongFormat ==
    (dlc.called /\ ~h5_file.multianimal) =>
        /\ LongFormat
        /\ \A e \in InputEstimates :
            /\ Cardinality(RowsOf(e[1], e[2], e[3])) <= 1
            /\ e \notin h5_file.missing =>
                Cardinality(RowsOf(e[1], e[2], e[3])) = 1

C6_Witness ==
    /\ dlc.called
    /\ ~h5_file.multianimal
    /\ h5_file.nframes = 2
    /\ h5_file.nbodyparts = 2
    /\ h5_file.missing # {}
    /\ h5_file.partial # {}
    /\ Len(dlc.df.rows) = 3

-----------------------------------------------------------------------------
(* C11 *)

SortedByIndividualBodypartFrame(df) ==
    \A i, j \in DOMAIN df.rows :
        i < j =>
            LET a == <<Col(df, df.rows[i], "individual"),
                       Col(df, df.rows[i], "bodypart"),
                       Col(df, df.rows[i], "frame")>>
                b == <<Col(df, df.rows[j], "individual"),
                       Col(df, df.rows[j], "bodypart"),
                       Col(df, df.rows[j], "frame")>>
            IN  \/ a[1] < b[1]
                \/ a[1] = b[1] /\ a[2] < b[2]
                \/ a[1] = b[1] /\ a[2] = b[2] /\ a[3] <= b[3]

\* C11: for a multi-animal pose table (its column levels include
\* "individuals") the call returns a table with the columns model_str,
\* individual, frame, bodypart, x, y, likelihood, rows sorted by individual,
\* then bodypart, then frame.
C11_MultiAnimalLongFormat ==
    (dlc.called /\ is_multianimal(h5_file)) =>
        /\ dlc.kind = "ok"
        /\ dlc.df.columns =
            <<"model_str", "individual", "frame", "bodypart", "x", "y",
              "likelihood">>
        /\ SortedByIndividualBodypartFrame(dlc.df)

-----------------------------------------------------------------------------
(* The project files get_dataframes_to_combine reads *)

SliderLabels == {"start", "end"}

EventFrames == 0..(MaxFrames - 1)

\* The Events of a metadata file: event names with their frames, in file
\* order
EventsChoices ==
    {<<>>}
    \cup {<< <<"start", f>> >> : f \in EventFrames}
    \cup {<< <<"start", f>>, <<"end", g>> >> : f \in EventFrames, g \in EventFrames}
    \cup {<< <<"end", f>>, <<"start", f>> >> : f \in EventFrames}

NoMetadataFile == [exists |-> FALSE, has_events |-> FALSE, Events |-> <<>>]

\* What yaml.safe_load returns for the metadata file of a video
MetadataChoices ==
    {NoMetadataFile}
    \cup {[exists |-> TRUE, has_events |-> FALSE, Events |-> <<>>]}
    \cup {[exists |-> TRUE, has_events |-> TRUE, Events |-> ev] :
            ev \in EventsChoices}

SampleMetadata ==
    [exists |-> TRUE, has_events |-> TRUE,
     Events |-> << <<"start", 0>>, <<"end", 0>> >>]

VideoFile(stem) == <<stem, ".avi">>

SelectableVideos == {VideoFile(stem) : stem \in Stems}

\* The metadata file of a video is found by the stem of the video's name.
\* The pose table of every video of the project: one tracking model, so
\* all single-animal or all multi-animal
PoseTable(multianimal) ==
    [multianimal |-> multianimal, nframes |-> MaxFrames,
     nbodyparts |-> MaxBodyparts, nscorers |-> 1,
     missing |-> {}, partial |-> {}]

\* The ROI of the metadata files, as the points its polygon contains
EnclosureROI ==
    [name |-> "enclosure",
     points |-> {<<CoordValue("x", f, 1, 1), CoordValue("y", f, 1, 1)>> :
                    f \in 0..(MaxFrames - 1)}]

Projects(selected) ==
    {[metadata |-> md, has_h5 |-> h5s, multianimal |-> multi,
      has_rois |-> rois] :
        md \in {m \in [{<<stem>> : stem \in Stems} -> MetadataChoices] :
                    \A stem \in Stems :
                        VideoFile(stem) \notin Range(selected)
                            => m[<<stem>>] = SampleMetadata},
        h5s \in BOOLEAN, multi \in BOOLEAN, rois \in BOOLEAN}

-----------------------------------------------------------------------------
(* get_dataframes_to_combine *)

HasEvent(events, label) == \E i \in DOMAIN events : events[i][1] = label

\* metadata["Events"][label]
EventFrame(events, label) ==
    events[CHOOSE i \in DOMAIN events : events[i][1] = label][2]

FrameInRangeEndExclusive(frame, frame_start_end) ==
    frame >= frame_start_end[1] /\ frame < frame_start_end[2]

\* (df["frame"] >= frame_start_end[0]) & (df["frame"] <= frame_start_end[1])
FrameInRange(frame, frame_start_end) ==
    frame >= frame_start_end[1] /\ frame <= frame_start_end[2]

\* df.loc[mask, :]: the rows of the mask, with their index labels
SliceFrames(df, frame_start_end) ==
    LET keep == {i \in DOMAIN df.rows :
                    FrameInRange(Col(df, df.rows[i], "frame"), frame_start_end)}
        kept == SelectSeq([i \in DOMAIN df.rows |-> i], LAMBDA i : i \in keep)
    IN  [df EXCEPT
            !.rows = [k \in DOMAIN kept |-> df.rows[kept[k]]],
            !.index = [k \in DOMAIN kept |-> df.index[kept[k]]]]

\* df.insert(1, "video_file", video): the new column is the second one
InsertVideoFile(df, video) ==
    [df EXCEPT
        !.columns = <<Head(df.columns), "video_file">> \o Tail(df.columns),
        !.rows = [r \in DOMAIN df.rows |->
                    <<Head(df.rows[r]), video>> \o Tail(df.rows[r])]]

\* df[column] = "": a new last column of empty strings
AddEmptyColumn(df, column) ==
    [df EXCEPT
        !.columns = Append(df.columns, column),
        !.rows = [r \in DOMAIN df.rows |-> Append(df.rows[r], "")]]

\* The tag of a point: the first ROI whose polygon contains it
RECURSIVE ROITagOf(_, _)
ROITagOf(point, rois) ==
    IF rois = <<>> THEN ""
    ELSE IF point \in Head(rois).points THEN Head(rois).name
    ELSE ROITagOf(point, Tail(rois))

add_ROIs_to_video_dataframe(df, rois) ==
    LET tag == IndexOf(df.columns, "ROI_tag")
    IN  [df EXCEPT
            !.rows = [r \in DOMAIN df.rows |->
                [df.rows[r] EXCEPT ![tag] =
                    ROITagOf(<<Col(df, df.rows[r], "x"),
                               Col(df, df.rows[r], "y")>>, rois)]]]

\* for event_str in metadata["Events"].keys():
\*     df.loc[df["frame"] == event_frame, "event_tag"] = event_str
RECURSIVE TagEvents(_, _)
TagEvents(df, events) ==
    IF events = <<>> THEN df
    ELSE LET tag == IndexOf(df.columns, "event_tag")
             event_str == Head(events)[1]
             event_frame == Head(events)[2]
             tagged ==
                [df EXCEPT
                    !.rows = [r \in DOMAIN df.rows |->
                        IF Col(df, df.rows[r], "frame") = event_frame
                        THEN [df.rows[r] EXCEPT ![tag] = event_str]
                        ELSE df.rows[r]]]
         IN  TagEvents(tagged, Tail(events))

\* The body of the loop over the selected videos
DataframeOfVideo(video, labels, proj, stack_drops_nan) ==
    LET metadata == proj.metadata[Stem(video)]
        pose == read_and_restructure_DLC_dataframe(
                    PoseTable(proj.multianimal), stack_drops_nan)
        frame_start_end == [i \in DOMAIN labels |->
                                EventFrame(metadata.Events, labels[i])]
        sliced == InsertVideoFile(SliceFrames(pose.df, frame_start_end), video)
        with_rois == IF proj.has_rois
                     THEN add_ROIs_to_video_dataframe(
                            AddEmptyColumn(sliced, "ROI_tag"), <<EnclosureROI>>)
                     ELSE AddEmptyColumn(sliced, "ROI_tag")
        with_events == IF metadata.has_events
                       THEN TagEvents(AddEmptyColumn(with_rois, "event_tag"),
                                      metadata.Events)
                       ELSE AddEmptyColumn(with_rois, "event_tag")
    IN  IF ~metadata.exists
        THEN \* open(yaml_filename, "r")
             [kind |-> "FileNotFoundError", df |-> NoFrame]
        ELSE IF ~metadata.has_events
        THEN \* metadata["Events"]
             [kind |-> "KeyError", df |-> NoFrame]
        ELSE IF \E i \in DOMAIN labels : ~HasEvent(metadata.Events, labels[i])
        THEN \* metadata["Events"][x]
             [kind |-> "KeyError", df |-> NoFrame]
        ELSE IF ~proj.has_h5
        THEN \* pd.read_hdf(h5_file)
             [kind |-> "FileNotFoundError", df |-> NoFrame]
        ELSE IF pose.kind # "ok"
        THEN [kind |-> pose.kind, df |-> NoFrame]
        ELSE [kind |-> "ok", df |-> with_events]

RECURSIVE get_dataframes_to_combine(_, _, _, _)
get_dataframes_to_combine(videos, labels, proj, stack_drops_nan) ==
    IF videos = <<>> THEN [kind |-> "ok", dfs |-> <<>>]
    ELSE LET one == DataframeOfVideo(Head(videos), labels, proj,
                                     stack_drops_nan)
             rest == get_dataframes_to_combine(Tail(videos), labels, proj,
                                               stack_drops_nan)
         IN  IF one.kind # "ok" THEN [kind |-> one.kind, dfs |-> <<>>]
             ELSE IF rest.kind # "ok" THEN rest
             ELSE [kind |-> "ok", dfs |-> <<one.df>> \o rest.dfs]

-----------------------------------------------------------------------------
(* Assembling the dataframes to export as a state machine *)

InitCombine ==
    /\ list_selected_videos \in SeqsUpTo(SelectableVideos, MaxVideos)
    /\ slider_start_end_labels \in [1..2 -> SliderLabels]
    /\ project \in Projects(list_selected_videos)
    /\ combine = NoCombine
    /\ IdleDir /\ IdleScan /\ IdleTable /\ IdleEdit /\ IdleExport /\ IdleDLC
    /\ IdleComponent

GetDataframesToCombine ==
    /\ ~combine.called
    /\ \E stack_drops_nan \in BOOLEAN :
        LET r == get_dataframes_to_combine(
                    list_selected_videos, slider_start_end_labels, project,
                    stack_drops_nan)
        IN  combine' = [called |-> TRUE, kind |-> r.kind, dfs |-> r.dfs]
    /\ UNCHANGED <<dir, scanVars, tableVars, editVars, exportVars, dlcVars,
                   project, list_selected_videos, slider_start_end_labels,
                   componentVars>>

NextCombine == GetDataframesToCombine

SpecCombine == InitCombine /\ [][NextCombine]_vars

\* The columns of an exported dataframe, by position
ExportedColumns ==
    <<"model_str", "video_file", "frame", "bodypart", "x", "y", "likelihood",
      "ROI_tag", "event_tag">>

MetadataOfSelected(i) ==
    LET video == list_selected_videos[i]
    IN  project.metadata[<<video[Len(video) - 1]>>]

StartOfSelected(i) ==
    LET events == MetadataOfSelected(i).Events
    IN  events[CHOOSE k \in DOMAIN events :
                events[k][1] = slider_start_end_labels[1]][2]

EndOfSelected(i) ==
    LET events == MetadataOfSelected(i).Events
    IN  events[CHOOSE k \in DOMAIN events :
                events[k][1] = slider_start_end_labels[2]][2]

\* The frame and bodypart of the rows of a dataframe
PoseKeys(df) == {<<df.rows[r][3], df.rows[r][4]>> : r \in DOMAIN df.rows}

-----------------------------------------------------------------------------
(* C7 *)

\* C7: the call returns one dataframe per selected video, in selection
\* order, and the dataframe of a video holds exactly the pose rows whose
\* frame lies between the frames its own Events give to the two slider
\* labels, both ends included (none when start > end).
C7_FrameRangeInclusive ==
    (combine.called /\ combine.kind = "ok") =>
        /\ Len(combine.dfs) = Len(list_selected_videos)
        /\ \A i \in DOMAIN combine.dfs :
            LET df == combine.dfs[i] IN
            /\ df.columns = ExportedColumns
            /\ \A r \in DOMAIN df.rows : df.rows[r][2] = list_selected_videos[i]
            /\ PoseKeys(df) =
                {<<f, b>> \in (0..(MaxFrames - 1)) \X (1..MaxBodyparts) :
                    StartOfSelected(i) <= f /\ f <= EndOfSelected(i)}
            /\ Len(df.rows) = Cardinality(PoseKeys(df))

C7_Witness ==
    /\ combine.called
    /\ combine.kind = "ok"
    /\ Len(combine.dfs) = 2
    /\ list_selected_videos[1] # list_selected_videos[2]
    /\ Len(combine.dfs[1].rows) = MaxBodyparts
    /\ StartOfSelected(2) > EndOfSelected(2)
    /\ combine.dfs[2].rows = <<>>

-----------------------------------------------------------------------------
(* C10 *)

SelectedReadable ==
    /\ combine.called
    /\ list_selected_videos # <<>>
    /\ project.has_h5
    /\ ~project.multianimal
    /\ \A i \in DOMAIN list_selected_videos :
        /\ MetadataOfSelected(i).exists
        /\ MetadataOfSelected(i).has_events =>
            \A k \in DOMAIN slider_start_end_labels :
                \E e \in DOMAIN MetadataOfSelected(i).Events :
                    MetadataOfSelected(i).Events[e][1]
                        = slider_start_end_labels[k]

\* C10: event tags are added only if events are defined: the event_tag of
\* a row is the name of an event at the row's frame, or the empty string
\* when there is none; a selected video whose metadata has no Events still
\* yields its dataframe, with every event_tag empty.
C10_EventTagsOnlyIfDefined ==
    SelectedReadable =>
        /\ combine.kind = "ok"
        /\ Len(combine.dfs) = Len(list_selected_videos)
        /\ \A i \in DOMAIN combine.dfs :
            LET df == combine.dfs[i]
                events == MetadataOfSelected(i).Events
                names_at(f) == {events[e][1] :
                                 e \in {k \in DOMAIN events : events[k][2] = f}}
            IN  \A r \in DOMAIN df.rows :
                    IF names_at(df.rows[r][3]) = {}
                    THEN df.rows[r][9] = ""
                    ELSE df.rows[r][9] \in names_at(df.rows[r][3])

-----------------------------------------------------------------------------
(* create_metadata_table_component_from_df *)

ColumnNames == {"File", "Species_name", "Date_start", "Date_end"}

MetadataFrames == {c \in SeqsUpTo(ColumnNames, MaxColumns) : IsDistinct(c)} \ {<<>>}

TableComponentInFrameOrder(columns, key_field) ==
    [i \in DOMAIN columns |->
        [id |-> columns[i], hideable |-> columns[i] # key_field]]

\* The columns of the table component: the key metadata field first, then
\* the other columns of the dataframe; only the key column cannot be hidden
create_metadata_table_component_from_df(columns, key_field) ==
    LET ordered == <<key_field>>
                   \o SelectSeq(columns, LAMBDA c : c # key_field)
    IN  [i \in DOMAIN ordered |->
            [id |-> ordered[i], hideable |-> ordered[i] # key_field]]

InitComponent ==
    /\ df_columns \in MetadataFrames
    /\ metadata_key_field_str \in Range(df_columns)
    /\ export = NoExport
    /\ component = NoComponent
    /\ IdleDir /\ IdleScan /\ IdleTable /\ IdleEdit /\ IdleDLC /\ IdleCombine

CreateTableComponent ==
    /\ ~component.called
    /\ component' =
        [called |-> TRUE,
         columns |-> create_metadata_table_component_from_df(
                        df_columns, metadata_key_field_str)]
    /\ UNCHANGED <<dir, scanVars, tableVars, editVars, exportVars, dlcVars,
                   combineVars, df_columns>>

NextComponent == CreateTableComponent

SpecComponent == InitComponent /\ [][NextComponent]_vars

-----------------------------------------------------------------------------
(* C8 *)

\* C8: the first column of the table component is the configured key
\* metadata field, whatever the column order of the dataframe and whichever
\* field is the key; every column of the dataframe is in the table, and
\* the key column is not hideable.
C8_KeyFieldFirst ==
    component.called =>
        /\ component.columns[1].id = metadata_key_field_str
        /\ ~component.columns[1].hideable
        /\ \A c \in Range(df_columns) :
            \E i \in DOMAIN component.columns : component.columns[i].id = c

C8_Witness ==
    /\ component.called
    /\ Len(df_columns) = MaxColumns
    /\ df_columns[Len(df_columns)] = metadata_key_field_str
    /\ component.columns[1].id = metadata_key_field_str

====
